---- MODULE Spec2Model ----
(***************************************************************************)
(* Model of popstar/atmospheres.py: the single-grid atmosphere fetchers    *)
(* and the merged-atmosphere resolver get_merged_atmosphere.               *)
(*                                                                         *)
(* Units.  Temperatures are Kelvin (integers).  Gravities (log g) are      *)
(* fixed-point hundredths of a dex: 2.0 is 200, 2.25 is 225, 5.0+0.1 is    *)
(* 510.  Every gravity node is a multiple of 0.5 and every tie between two *)
(* nodes lies on a multiple of 0.25, all exactly representable in binary   *)
(* floating point, so the fixed-point comparisons agree with the float     *)
(* comparisons of the code.  Metallicities are tenths of a dex.            *)
(*                                                                         *)
(* One behaviour is one top-level call: the functions share no state, so   *)
(* the state is the observation of a single call (what it forwarded, what  *)
(* it asked of pysynphot.Icat, what it printed, what it returned).         *)
(***************************************************************************)
EXTENDS Integers, Sequences, FiniteSets, TLC

VARIABLES
    fn,      \* name of the function that was called, "idle" before the call
    args,    \* the arguments it received
    calls,   \* fetchers invoked by get_merged_atmosphere, with what each returned
    icat,    \* the pysynphot.Icat queries issued, in order
    given,   \* the spectra pysynphot.Icat handed back, in order
    snap,    \* the locals (temperature, gravity) after the closest-match assignment
    out,     \* the lines printed, in order
    ret      \* the value returned: <<>> is None, <<sp>> is a spectrum

vars == <<fn, args, calls, icat, given, snap, out, ret>>

----------------------------------------------------------------------------
(* Bounds of the explored inputs *)

\* temperatures 2000 + 50*k, k \in 0..MaxColdIdx: the cool and intermediate range
MaxColdIdx == 110
\* temperatures 8000 + 1000*k, k \in 0..MaxHotIdx: the hot range, past the 50000 K node
MaxHotIdx == 43
\* gravities -1.0 + 0.25*k, k \in 0..MaxGravIdx
MaxGravIdx == 32

\* temperatures named by the specification, ties between nodes, guard boundaries
SpecialTemps ==
    { 0, 2299, 2301, 2999, 3001, 3125, 4999, 5001, 5125, 5249, 5251, 5499, 5501,
      7100, 7101, 11900, 12001, 12875, 12900, 13499, 13501, 19999, 20001,
      49500, 50001, 1000000 }

Temps ==
    { 2000 + 50 * k : k \in 0..MaxColdIdx }
        \cup { 8000 + 1000 * k : k \in 0..MaxHotIdx }
        \cup SpecialTemps

Gravs == { 25 * k - 100 : k \in 0..MaxGravIdx } \cup { 199, 249, 414, 490, 551, 651 }

Metallicities == { -15, 0 }

\* the fetchers that pass the request through are explored on a coarser grid
DirectTemps == { t \in Temps : t % 1000 = 0 } \cup SpecialTemps
DirectGravs == { g \in Gravs : g % 50 = 0 } \cup { 414 }

\* flux arrays the external interpolator may hand back: all zero, or not
Fluxes == { <<0, 0>>, <<0, 7>>, <<3, 0>> }

----------------------------------------------------------------------------
(* numpy helpers *)

Abs(x) == IF x < 0 THEN -x ELSE x

\* np.arange(start, stop, step): start, start+step, ... below stop
arange(start, stop, step) ==
    [i \in 1..((stop - start + step - 1) \div step) |-> start + (i - 1) * step]

\* np.append(a, b)
np_append(a, b) == a \o b

\* min(abs(arr - x))
min_abs(arr, x) ==
    CHOOSE d \in { Abs(arr[i] - x) : i \in DOMAIN arr } :
        \A j \in DOMAIN arr : d <= Abs(arr[j] - x)

\* np.where(arr - x == min(arr - x))[0] : the comparison without abs
where_closest_no_abs(arr, x) ==
    LET m == CHOOSE d \in { arr[i] - x : i \in DOMAIN arr } :
                 \A j \in DOMAIN arr : d <= arr[j] - x
    IN { i \in DOMAIN arr : arr[i] - x = m }

\* np.where(abs(arr - x) == min(abs(arr - x)))[0] : the indices of the closest nodes
where_closest(arr, x) ==
    LET m == min_abs(arr, x)
    IN { i \in DOMAIN arr : Abs(arr[i] - x) = m }

\* ind[-1]: the last index of an index array
last_index(ind) == CHOOSE i \in ind : \A j \in ind : j <= i

\* ind[0]: the first index of an index array (np.where returns them ascending)
first_index(ind) == CHOOSE i \in ind : \A j \in ind : i <= j

----------------------------------------------------------------------------
(* The external interpolator and the check of its result *)

\* pysynphot.Icat(catalog, temperature, metallicity, gravity): the spectrum of
\* the query; its flux array is the interpolator's to choose
Icat(catalog, temperature, metallicity, gravity, flux) ==
    [catalog |-> catalog, temperature |-> temperature,
     metallicity |-> metallicity, gravity |-> gravity, flux |-> flux]

\* the query a spectrum answers
query_of(sp) ==
    [catalog |-> sp.catalog, temperature |-> sp.temperature,
     metallicity |-> sp.metallicity, gravity |-> sp.gravity]

\* the test inverted: some flux value is zero
some_zero_flux(sp) == { i \in DOMAIN sp.flux : sp.flux[i] = 0 } # {}

\* idx = np.where(sp.flux != 0)[0]; len(idx) == 0
no_flux(sp) == { i \in DOMAIN sp.flux : sp.flux[i] # 0 } = {}

\* "Do some error checking": the four lines printed for an all-zero spectrum.
\* A line is <<format>> or <<format, argument>>.
error_checking(title, sp, temperature, metallicity, gravity) ==
    IF no_flux(sp)
    THEN << <<title>>,
            <<"  temperature = %d", temperature>>,
            <<"  metallicity = %.1f", metallicity>>,
            <<"  log gravity = %.1f", gravity>> >>
    ELSE <<>>

\* the result of a fetcher that returned early with a bare "return"
rejected(line) ==
    [ret |-> <<>>, icat |-> <<>>, given |-> <<>>, snap |-> <<>>, out |-> << <<line>> >>,
     calls |-> <<>>]

\* the result of a fetcher that queried the interpolator
fetched(sp, snapped, lines) ==
    [ret |-> <<sp>>, icat |-> <<query_of(sp)>>, given |-> <<sp>>, snap |-> snapped,
     out |-> lines, calls |-> <<>>]

----------------------------------------------------------------------------
(* The fetchers that pass the request straight to the interpolator *)

direct_fetch(catalog, title, metallicity, temperature, gravity, flux) ==
    LET sp == Icat(catalog, temperature, metallicity, gravity, flux)
    IN fetched(sp, <<>>, error_checking(title, sp, temperature, metallicity, gravity))

get_kurucz_atmosphere(metallicity, temperature, gravity, flux) ==
    direct_fetch("k93models", "Could not find Kurucz 1993 atmosphere model for",
                 metallicity, temperature, gravity, flux)

get_nextgen_atmosphere(metallicity, temperature, gravity, flux) ==
    direct_fetch("nextgen", "Could not find NextGen atmosphere model for",
                 metallicity, temperature, gravity, flux)

get_amesdusty_atmosphere(metallicity, temperature, gravity, flux) ==
    direct_fetch("AMESdusty", "Could not find AMESdusty Allard+ 2000 atmosphere model for",
                 metallicity, temperature, gravity, flux)

get_phoenix_atmosphere(metallicity, temperature, gravity, flux) ==
    direct_fetch("phoenix", "Could not find PHOENIX BT-Settl (Allard+ 2011 atmosphere model for",
                 metallicity, temperature, gravity, flux)

get_cmfgenRot_atmosphere(metallicity, temperature, gravity, flux) ==
    direct_fetch("cmfgenF15_rot", "Could not find CMFGEN rotating atmosphere model (Fierro+15) for",
                 metallicity, temperature, gravity, flux)

get_cmfgenNoRot_atmosphere(metallicity, temperature, gravity, flux) ==
    direct_fetch("cmfgenF15_noRot", "Could not find CMFGEN non-rotating atmosphere model (Fierro+15) for",
                 metallicity, temperature, gravity, flux)

----------------------------------------------------------------------------
(* get_castelli_atmosphere *)

castelli_temp_arr == np_append(arange(3000, 13000 + 1, 250), arange(13000, 50000 + 1, 1000))
castelli_grav_arr == arange(200, 500 + 10, 50)

\* the guard with the comparison inclusive
castelli_no_model_incl(temperature) == temperature <= 3000

\* "No models below 3000 K"
castelli_no_model(temperature) == temperature < 3000

\* the clamp left out
castelli_no_clamp(gravity) == gravity

\* "Pysynphot crashes if gravity is less than 2.5; change gravity to 2.5"
castelli_clamp(gravity) == IF gravity < 250 THEN 250 ELSE gravity

\* the index of the last closest node
closest_last(arr, x) == arr[last_index(where_closest(arr, x))]

\* the comparison of line 68 without abs
closest_no_abs(arr, x) == arr[first_index(where_closest_no_abs(arr, x))]

\* the closest match computed but the request left as it was
closest_unassigned(arr, x) == x

\* arr[np.where(abs(arr - x) == min(abs(arr - x)))[0][0]]: the closest match
closest(arr, x) == arr[first_index(where_closest(arr, x))]

get_castelli_atmosphere(metallicity, temperature, gravity, flux) ==
    IF castelli_no_model(temperature)
    THEN rejected("No ck04 model below 3000 K")
    ELSE LET t  == closest(castelli_temp_arr, temperature)
             g0 == closest(castelli_grav_arr, gravity)
             g  == castelli_clamp(g0)
             sp == Icat("ck04models", t, metallicity, g, flux)
         IN fetched(sp, << [temperature |-> t, gravity |-> g0] >>,
                    error_checking("Could not find Castelli and Kurucz 2004 atmosphere model for",
                                   sp, t, metallicity, g))

----------------------------------------------------------------------------
(* get_phoenixv16_atmosphere *)

phoenixv16_temp_arr == np_append(arange(2300, 7000 + 1, 100), arange(7000, 12000 + 1, 200))
phoenixv16_grav_arr == arange(200, 600 + 10, 50)

\* the guard without its gravity term
phoenixv16_no_model_temp_only(temperature, gravity) ==
    (temperature < 2300) \/ (temperature > 12000)

\* (temperature < 2300) | (temperature > 12000) | (gravity < 2.0)
phoenixv16_no_model(temperature, gravity) ==
    (temperature < 2300) \/ (temperature > 12000) \/ (gravity < 200)

\* the two distances joined by "and"
phoenixv16_bad_match_and(temperature, gravity, tnode, gnode) ==
    (Abs(temperature - tnode) > 100) /\ (Abs(gravity - gnode) > 50)

\* the temperature tolerance written as 10 instead of 100
phoenixv16_bad_match_tol10(temperature, gravity, tnode, gnode) ==
    (Abs(temperature - tnode) > 10) \/ (Abs(gravity - gnode) > 50)

\* "Error checking: stop if temp/grav difference is too high"
phoenixv16_bad_match(temperature, gravity, tnode, gnode) ==
    (Abs(temperature - tnode) > 100) \/ (Abs(gravity - gnode) > 50)

get_phoenixv16_atmosphere(metallicity, temperature, gravity, rebin, flux) ==
    IF phoenixv16_no_model(temperature, gravity)
    THEN rejected("No phoenixV16 model below 2300 K or above 12000 K, or grav < 2.0")
    ELSE LET t == closest(phoenixv16_temp_arr, temperature)
             g == closest(phoenixv16_grav_arr, gravity)
         IN IF phoenixv16_bad_match(temperature, gravity, t, g)
            THEN rejected("BAD TEMP/GRAV MATCH")
            ELSE LET sp == IF rebin
                           THEN Icat("phoenix_v16_rebin", t, metallicity, g, flux)
                           ELSE Icat("phoenix_v16", t, metallicity, g, flux)
                 IN fetched(sp, << [temperature |-> t, gravity |-> g] >>,
                            error_checking("Could not find PHOENIXv16 (Husser+13) atmosphere model for",
                                           sp, t, metallicity, g))

----------------------------------------------------------------------------
(* get_atlas_phoenix_atmosphere *)

atlas_phoenix_temp_arr == <<5250>>
atlas_phoenix_grav_arr == arange(0, 500 + 10, 50)

\* the guard with both comparisons inclusive
atlas_phoenix_no_model_incl(temperature) == (temperature <= 5000) \/ (temperature >= 5500)

\* (temperature < 5000) | (temperature > 5500)
atlas_phoenix_no_model(temperature) == (temperature < 5000) \/ (temperature > 5500)

\* the gravity distance left out of the test
atlas_phoenix_bad_match_temp_only(temperature, gravity, tnode, gnode) ==
    Abs(temperature - tnode) > 250

\* "Error checking: stop if temp/grav difference is too high"
atlas_phoenix_bad_match(temperature, gravity, tnode, gnode) ==
    (Abs(temperature - tnode) > 250) \/ (Abs(gravity - gnode) > 50)

get_atlas_phoenix_atmosphere(metallicity, temperature, gravity, flux) ==
    IF atlas_phoenix_no_model(temperature)
    THEN rejected("No ATLAS-PHOENIX merge model outside 5000 - 5500")
    ELSE LET t == closest(atlas_phoenix_temp_arr, temperature)
             g == closest(atlas_phoenix_grav_arr, gravity)
         IN IF atlas_phoenix_bad_match(temperature, gravity, t, g)
            THEN rejected("BAD TEMP/GRAV MATCH")
            ELSE LET sp == Icat("merged", t, metallicity, g, flux)
                 IN fetched(sp, << [temperature |-> t, gravity |-> g] >>,
                            error_checking("Could not find ATLAS-PHOENIX merge atmosphere model for",
                                           sp, t, metallicity, g))

----------------------------------------------------------------------------
(* get_merged_atmosphere *)

\* the first band closed at 5000
merged_branch_closed(temperature) ==
    IF temperature <= 5000 THEN "phoenixv16"
    ELSE IF (temperature > 5000) /\ (temperature < 5500) THEN "atlas_phoenix"
    ELSE IF temperature > 5500 THEN "castelli"
    ELSE IF temperature > 20000 THEN "castelli_high"
    ELSE "none"

\* the band boundaries 5000 and 5500 exchanged between the second and third test
merged_branch_shifted(temperature) ==
    IF temperature < 5000 THEN "phoenixv16"
    ELSE IF (temperature > 5000) /\ (temperature < 5000) THEN "atlas_phoenix"
    ELSE IF temperature > 5000 THEN "castelli"
    ELSE IF temperature > 20000 THEN "castelli_high"
    ELSE "none"

\* the test for 20000 placed before the test for 5500
merged_branch_high_first(temperature) ==
    IF temperature < 5000 THEN "phoenixv16"
    ELSE IF (temperature > 5000) /\ (temperature < 5500) THEN "atlas_phoenix"
    ELSE IF temperature > 20000 THEN "castelli_high"
    ELSE IF temperature > 5500 THEN "castelli"
    ELSE "none"

\* the third band closed at 5500
merged_branch_closed_5500(temperature) ==
    IF temperature < 5000 THEN "phoenixv16"
    ELSE IF (temperature > 5000) /\ (temperature < 5500) THEN "atlas_phoenix"
    ELSE IF temperature >= 5500 THEN "castelli"
    ELSE IF temperature > 20000 THEN "castelli_high"
    ELSE "none"

\* the chain of "if ...: return" tests, in order; "none" is falling off the end
merged_branch(temperature) ==
    IF temperature < 5000 THEN "phoenixv16"
    ELSE IF (temperature > 5000) /\ (temperature < 5500) THEN "atlas_phoenix"
    ELSE IF temperature > 5500 THEN "castelli"
    ELSE IF temperature > 20000 THEN "castelli_high"
    ELSE "none"

\* the gravity keyword left to the callee's default gravity=4
merged_kwargs_default_gravity(metallicity, temperature, gravity) ==
    [metallicity |-> metallicity, temperature |-> temperature, gravity |-> 400]

\* the metallicity keyword left to the callee's default metallicity=0
merged_kwargs_default_metallicity(metallicity, temperature, gravity) ==
    [metallicity |-> 0, temperature |-> temperature, gravity |-> gravity]

\* the keyword arguments of the delegated call
merged_kwargs(metallicity, temperature, gravity) ==
    [metallicity |-> metallicity, temperature |-> temperature, gravity |-> gravity]

\* the result of get_merged_atmosphere delegating to fetcher name, which gave r
delegated(line, name, kw, r) ==
    LET res == r
    IN [res EXCEPT
          !.out   = << <<line>> >> \o res.out,
          !.calls = << [fn |-> name, metallicity |-> kw.metallicity,
                        temperature |-> kw.temperature, gravity |-> kw.gravity,
                        ret |-> res.ret] >>]

get_merged_atmosphere(metallicity, temperature, gravity, flux) ==
    LET kw     == merged_kwargs(metallicity, temperature, gravity)
        branch == merged_branch(temperature)
    IN CASE branch = "phoenixv16" ->
              delegated("Phoenix Model Atmosphere Used", "get_phoenixv16_atmosphere", kw,
                        get_phoenixv16_atmosphere(kw.metallicity, kw.temperature,
                                                  kw.gravity, TRUE, flux))
         [] branch = "atlas_phoenix" ->
              delegated("ATLAS and PHOENIX merged atmosphere used",
                        "get_atlas_phoenix_atmosphere", kw,
                        get_atlas_phoenix_atmosphere(kw.metallicity, kw.temperature,
                                                     kw.gravity, flux))
         [] branch = "castelli" ->
              delegated("ATLAS atmosphere used", "get_castelli_atmosphere", kw,
                        get_castelli_atmosphere(kw.metallicity, kw.temperature,
                                                kw.gravity, flux))
         [] branch = "castelli_high" ->
              delegated("Warning: ATLAS still used at high temps",
                        "get_castelli_atmosphere", kw,
                        get_castelli_atmosphere(kw.metallicity, kw.temperature,
                                                kw.gravity, flux))
         [] OTHER ->
              \* no test matched: the function ends without a return statement
              [ret |-> <<>>, icat |-> <<>>, given |-> <<>>, snap |-> <<>>, out |-> <<>>,
               calls |-> <<>>]

----------------------------------------------------------------------------
(* The state machine: one call of one public function *)

Init ==
    /\ fn = "idle"
    /\ args = <<>>
    /\ calls = <<>>
    /\ icat = <<>>
    /\ given = <<>>
    /\ snap = <<>>
    /\ out = <<>>
    /\ ret = <<>>

\* the call name(a) ran to its return and produced r
Returns(name, a, r) ==
    /\ fn' = name
    /\ args' = a
    /\ calls' = r.calls
    /\ icat' = r.icat
    /\ given' = r.given
    /\ snap' = r.snap
    /\ out' = r.out
    /\ ret' = r.ret

\* the positional or keyword arguments (metallicity, temperature, gravity)
mtg(m, t, g) == [metallicity |-> m, temperature |-> t, gravity |-> g]

call_get_kurucz_atmosphere ==
    /\ fn = "idle"
    /\ \E m \in Metallicities, t \in DirectTemps, g \in DirectGravs, flux \in Fluxes :
           Returns("get_kurucz_atmosphere", mtg(m, t, g), get_kurucz_atmosphere(m, t, g, flux))

call_get_castelli_atmosphere ==
    /\ fn = "idle"
    /\ \E m \in Metallicities, t \in Temps, g \in Gravs, flux \in Fluxes :
           Returns("get_castelli_atmosphere", mtg(m, t, g), get_castelli_atmosphere(m, t, g, flux))

call_get_nextgen_atmosphere ==
    /\ fn = "idle"
    /\ \E m \in Metallicities, t \in DirectTemps, g \in DirectGravs, flux \in Fluxes :
           Returns("get_nextgen_atmosphere", mtg(m, t, g), get_nextgen_atmosphere(m, t, g, flux))

call_get_amesdusty_atmosphere ==
    /\ fn = "idle"
    /\ \E m \in Metallicities, t \in DirectTemps, g \in DirectGravs, flux \in Fluxes :
           Returns("get_amesdusty_atmosphere", mtg(m, t, g), get_amesdusty_atmosphere(m, t, g, flux))

call_get_phoenix_atmosphere ==
    /\ fn = "idle"
    /\ \E m \in Metallicities, t \in DirectTemps, g \in DirectGravs, flux \in Fluxes :
           Returns("get_phoenix_atmosphere", mtg(m, t, g), get_phoenix_atmosphere(m, t, g, flux))

call_get_cmfgenRot_atmosphere ==
    /\ fn = "idle"
    /\ \E m \in Metallicities, t \in DirectTemps, g \in DirectGravs, flux \in Fluxes :
           Returns("get_cmfgenRot_atmosphere", mtg(m, t, g), get_cmfgenRot_atmosphere(m, t, g, flux))

call_get_cmfgenNoRot_atmosphere ==
    /\ fn = "idle"
    /\ \E m \in Metallicities, t \in DirectTemps, g \in DirectGravs, flux \in Fluxes :
           Returns("get_cmfgenNoRot_atmosphere", mtg(m, t, g), get_cmfgenNoRot_atmosphere(m, t, g, flux))

call_get_phoenixv16_atmosphere ==
    /\ fn = "idle"
    /\ \E m \in Metallicities, t \in Temps, g \in Gravs, rebin \in BOOLEAN, flux \in Fluxes :
           Returns("get_phoenixv16_atmosphere",
                   [metallicity |-> m, temperature |-> t, gravity |-> g, rebin |-> rebin],
                   get_phoenixv16_atmosphere(m, t, g, rebin, flux))

call_get_atlas_phoenix_atmosphere ==
    /\ fn = "idle"
    /\ \E m \in Metallicities, t \in Temps, g \in Gravs, flux \in Fluxes :
           Returns("get_atlas_phoenix_atmosphere", mtg(m, t, g),
                   get_atlas_phoenix_atmosphere(m, t, g, flux))

call_get_merged_atmosphere ==
    /\ fn = "idle"
    /\ \E m \in Metallicities, t \in Temps, g \in Gravs, flux \in Fluxes :
           Returns("get_merged_atmosphere", mtg(m, t, g),
                   get_merged_atmosphere(m, t, g, flux))

Next ==
    \/ call_get_kurucz_atmosphere
    \/ call_get_castelli_atmosphere
    \/ call_get_nextgen_atmosphere
    \/ call_get_amesdusty_atmosphere
    \/ call_get_phoenix_atmosphere
    \/ call_get_cmfgenRot_atmosphere
    \/ call_get_cmfgenNoRot_atmosphere
    \/ call_get_phoenixv16_atmosphere
    \/ call_get_atlas_phoenix_atmosphere
    \/ call_get_merged_atmosphere

Spec == Init /\ [][Next]_vars

----------------------------------------------------------------------------
(* Vocabulary of the properties *)

\* the values of an array
Nodes(arr) == { arr[i] : i \in DOMAIN arr }

castelli_temp_nodes     == Nodes(castelli_temp_arr)
castelli_grav_nodes     == Nodes(castelli_grav_arr)
phoenixv16_temp_nodes   == Nodes(phoenixv16_temp_arr)
phoenixv16_grav_nodes   == Nodes(phoenixv16_grav_arr)
atlas_phoenix_temp_nodes == Nodes(atlas_phoenix_temp_arr)
atlas_phoenix_grav_nodes == Nodes(atlas_phoenix_grav_arr)

\* n is the node closest to x, the smaller one when two are equally close
IsLowestNearest(nodes, x, n) ==
    /\ n \in nodes
    /\ \A k \in nodes :
           \/ Abs(n - x) < Abs(k - x)
           \/ (Abs(n - x) = Abs(k - x) /\ n <= k)

\* every node is farther than tol from x
TooFar(nodes, x, tol) == \A k \in nodes : Abs(k - x) > tol

\* the invocations of fetcher name in this call, each with what it received
\* and what it returned: the call itself, or a delegation of the resolver
Invocations(name) ==
    IF fn = name
    THEN { [metallicity |-> args.metallicity, temperature |-> args.temperature,
            gravity |-> args.gravity, ret |-> ret] }
    ELSE IF fn = "get_merged_atmosphere"
    THEN { [metallicity |-> calls[i].metallicity, temperature |-> calls[i].temperature,
            gravity |-> calls[i].gravity, ret |-> calls[i].ret] :
               i \in { j \in DOMAIN calls : calls[j].fn = name } }
    ELSE {}

\* the names of the fetchers the resolver invoked, in order
CalledFetchers == [i \in DOMAIN calls |-> calls[i].fn]

\* the invocation ended in None without a query of the interpolator
NoResultNoQuery(c) == c.ret = <<>> /\ icat = <<>>

\* the invocation queried the interpolator exactly once and returned its spectrum
QueriedOnce(c) ==
    /\ Len(icat) = 1
    /\ Len(c.ret) = 1
    /\ query_of(c.ret[1]) = icat[1]

----------------------------------------------------------------------------
(* Properties *)

C2_Gap5000 ==
    (fn = "get_merged_atmosphere" /\ args.temperature = 5000) =>
        /\ calls = <<>>
        /\ icat = <<>>
        /\ ret = <<>>

C2_Witness ==
    /\ fn = "get_merged_atmosphere"
    /\ args.temperature = 5000
    /\ args.gravity = 400
    /\ ret = <<>>

\* C3: get_merged_atmosphere is a pure dispatcher: every fetcher it invokes
\* receives exactly the (metallicity, temperature, gravity) the resolver
\* received, and the resolver returns exactly what that fetcher returned.
C3_PureDispatcher ==
    fn = "get_merged_atmosphere" =>
        \A i \in DOMAIN calls :
            /\ calls[i].metallicity = args.metallicity
            /\ calls[i].temperature = args.temperature
            /\ calls[i].gravity = args.gravity
            /\ ret = calls[i].ret

C3_Witness ==
    /\ fn = "get_merged_atmosphere"
    /\ args = [metallicity |-> -15, temperature |-> 6100, gravity |-> 225]
    /\ Len(calls) = 1
    /\ calls[1].gravity = 225
    /\ Len(ret) = 1

\* C4: get_phoenixv16_atmosphere with temperature < 2300 or gravity < 2.0, for
\* any metallicity and either rebin, returns None and never queries the
\* interpolator.
C4_PhoenixFloor ==
    \A c \in Invocations("get_phoenixv16_atmosphere") :
        (c.temperature < 2300 \/ c.gravity < 200) => NoResultNoQuery(c)

C4_Witness ==
    /\ fn = "get_phoenixv16_atmosphere"
    /\ args.temperature = 4000
    /\ args.gravity = 175
    /\ args.rebin = FALSE
    /\ ret = <<>>
    /\ icat = <<>>

\* C5: every get_castelli_atmosphere call that reaches the interpolator
\* forwards a gravity >= 2.5: exactly 2.5 when the nearest gravity node is
\* below 2.5, and the nearest node itself otherwise.
C5_CastelliClamp ==
    \A c \in Invocations("get_castelli_atmosphere") :
        icat # <<>> =>
            /\ icat[1].gravity >= 250
            /\ \E n \in castelli_grav_nodes :
                   /\ IsLowestNearest(castelli_grav_nodes, c.gravity, n)
                   /\ (n < 250 => icat[1].gravity = 250)
                   /\ (n >= 250 => icat[1].gravity = n)

C5_Witness ==
    /\ fn = "get_castelli_atmosphere"
    /\ args.gravity = 150
    /\ Len(icat) = 1
    /\ icat[1].gravity = 250

\* C6: get_atlas_phoenix_atmosphere accepts only temperatures in [5000, 5500],
\* ends included: outside it returns None without a query; inside, with the
\* gravity within 0.5 of a node of 0.0, 0.5 .. 5.0, it queries catalog
\* 'merged' at temperature 5250.
C6_MergeRange ==
    \A c \in Invocations("get_atlas_phoenix_atmosphere") :
        /\ (c.temperature < 5000 \/ c.temperature > 5500) => NoResultNoQuery(c)
        /\ (/\ c.temperature >= 5000
            /\ c.temperature <= 5500
            /\ \E k \in 0..10 : Abs(c.gravity - 50 * k) <= 50) =>
               /\ Len(icat) = 1
               /\ icat[1].catalog = "merged"
               /\ icat[1].temperature = 5250

C6_Witness ==
    /\ fn = "get_atlas_phoenix_atmosphere"
    /\ args.temperature = 5000
    /\ args.gravity = 550
    /\ Len(icat) = 1
    /\ icat[1].catalog = "merged"
    /\ icat[1].temperature = 5250

\* the locals after the closest-match assignment are the nodes closest to the
\* request on each axis, the smaller node on a tie
SnappedToNearest(c, temp_nodes, grav_nodes) ==
    snap # <<>> =>
        /\ IsLowestNearest(temp_nodes, c.temperature, snap[1].temperature)
        /\ IsLowestNearest(grav_nodes, c.gravity, snap[1].gravity)

\* C7: in the snapping fetchers the snapped temperature is the node of the
\* temperature array minimising |node - temperature| and the snapped gravity
\* the node of the gravity array minimising |node - gravity|, each axis on its
\* own; of two equidistant nodes the lowest-index (smaller) one is taken.
C7_NearestNode ==
    /\ \A c \in Invocations("get_castelli_atmosphere") :
           SnappedToNearest(c, castelli_temp_nodes, castelli_grav_nodes)
    /\ \A c \in Invocations("get_phoenixv16_atmosphere") :
           SnappedToNearest(c, phoenixv16_temp_nodes, phoenixv16_grav_nodes)
    /\ \A c \in Invocations("get_atlas_phoenix_atmosphere") :
           SnappedToNearest(c, atlas_phoenix_temp_nodes, atlas_phoenix_grav_nodes)

C7_Witness ==
    /\ fn = "get_phoenixv16_atmosphere"
    /\ args.temperature = 2350
    /\ args.gravity = 225
    /\ snap = << [temperature |-> 2300, gravity |-> 200] >>
    /\ Len(icat) = 1

\* a request on a node of either axis keeps that value, a request on a node of
\* both axes is not rejected, and snapping the snapped values again changes nothing
SnapIdempotent(c, temp_arr, temp_nodes, grav_arr, grav_nodes) ==
    /\ (c.temperature \in temp_nodes /\ c.gravity \in grav_nodes) =>
           snap = << [temperature |-> c.temperature, gravity |-> c.gravity] >>
    /\ snap # <<>> =>
           /\ c.temperature \in temp_nodes => snap[1].temperature = c.temperature
           /\ c.gravity \in grav_nodes => snap[1].gravity = c.gravity
           /\ closest(temp_arr, snap[1].temperature) = snap[1].temperature
           /\ closest(grav_arr, snap[1].gravity) = snap[1].gravity

\* C8: nearest-node snapping is idempotent in Castelli-Kurucz, PHOENIX-v16 and
\* the ATLAS/PHOENIX merge: a temperature and a gravity that are nodes of the
\* family's arrays snap to themselves, and snapping a snapped value again does
\* not change it.
C8_SnapIdempotent ==
    /\ \A c \in Invocations("get_castelli_atmosphere") :
           SnapIdempotent(c, castelli_temp_arr, castelli_temp_nodes,
                          castelli_grav_arr, castelli_grav_nodes)
    /\ \A c \in Invocations("get_phoenixv16_atmosphere") :
           SnapIdempotent(c, phoenixv16_temp_arr, phoenixv16_temp_nodes,
                          phoenixv16_grav_arr, phoenixv16_grav_nodes)
    /\ \A c \in Invocations("get_atlas_phoenix_atmosphere") :
           SnapIdempotent(c, atlas_phoenix_temp_arr, atlas_phoenix_temp_nodes,
                          atlas_phoenix_grav_arr, atlas_phoenix_grav_nodes)

C8_Witness ==
    /\ fn = "get_castelli_atmosphere"
    /\ args.temperature = 13000
    /\ args.gravity = 200
    /\ snap = << [temperature |-> 13000, gravity |-> 200] >>

\* C9: in PHOENIX-v16 (tolerance 100 K, 0.5 in gravity) and the ATLAS/PHOENIX
\* merge (250 K, 0.5), a request that passed the range check but lies farther
\* than the tolerance from the nearest node on the temperature axis or on the
\* gravity axis returns None, and the interpolator is never queried for it.
C9_SnapTooFar ==
    /\ \A c \in Invocations("get_phoenixv16_atmosphere") :
           (/\ c.temperature >= 2300
            /\ c.temperature <= 12000
            /\ c.gravity >= 200
            /\ \/ TooFar(phoenixv16_temp_nodes, c.temperature, 100)
               \/ TooFar(phoenixv16_grav_nodes, c.gravity, 50)) =>
               NoResultNoQuery(c)
    /\ \A c \in Invocations("get_atlas_phoenix_atmosphere") :
           (/\ c.temperature >= 5000
            /\ c.temperature <= 5500
            /\ \/ TooFar(atlas_phoenix_temp_nodes, c.temperature, 250)
               \/ TooFar(atlas_phoenix_grav_nodes, c.gravity, 50)) =>
               NoResultNoQuery(c)

C9_Witness ==
    /\ fn = "get_phoenixv16_atmosphere"
    /\ args.temperature = 4000
    /\ args.gravity = 675
    /\ out = << <<"BAD TEMP/GRAV MATCH">> >>
    /\ ret = <<>>
    /\ icat = <<>>

\* PHOENIX-v16 and the merge: in range and within tolerance on both axes means
\* one query, at the nearest nodes, whose spectrum is returned
AcceptedAtNearest(c, temp_nodes, temp_tol, grav_nodes, grav_tol) ==
    (~TooFar(temp_nodes, c.temperature, temp_tol) /\ ~TooFar(grav_nodes, c.gravity, grav_tol)) =>
        /\ QueriedOnce(c)
        /\ IsLowestNearest(temp_nodes, c.temperature, icat[1].temperature)
        /\ IsLowestNearest(grav_nodes, c.gravity, icat[1].gravity)

AcceptedPhoenixAndMerge ==
    /\ \A c \in Invocations("get_phoenixv16_atmosphere") :
           (c.temperature >= 2300 /\ c.temperature <= 12000 /\ c.gravity >= 200) =>
               AcceptedAtNearest(c, phoenixv16_temp_nodes, 100, phoenixv16_grav_nodes, 50)
    /\ \A c \in Invocations("get_atlas_phoenix_atmosphere") :
           (c.temperature >= 5000 /\ c.temperature <= 5500) =>
               AcceptedAtNearest(c, atlas_phoenix_temp_nodes, 250, atlas_phoenix_grav_nodes, 50)

\* C10 as stated: a request that passes the range check and is within the
\* tolerance is never rejected, the interpolator is queried exactly once at
\* the snapped node and its spectrum returned; Castelli-Kurucz has no
\* tolerance, queries for every temperature >= 3000 and every gravity, and
\* returns None only below 3000.
C10_AcceptedAtSnappedNode ==
    /\ AcceptedPhoenixAndMerge
    /\ \A c \in Invocations("get_castelli_atmosphere") :
           /\ c.ret = <<>> <=> c.temperature < 3000
           /\ c.temperature >= 3000 =>
                  /\ QueriedOnce(c)
                  /\ IsLowestNearest(castelli_temp_nodes, c.temperature, icat[1].temperature)
                  /\ IsLowestNearest(castelli_grav_nodes, c.gravity, icat[1].gravity)

\* C10 amended: as C10, except that Castelli-Kurucz queries at the snapped
\* temperature and at the snapped gravity raised to 2.5 when it is below 2.5.
C10_AcceptedAtSnappedOrClampedNode ==
    /\ AcceptedPhoenixAndMerge
    /\ \A c \in Invocations("get_castelli_atmosphere") :
           /\ c.ret = <<>> <=> c.temperature < 3000
           /\ c.temperature >= 3000 =>
                  /\ QueriedOnce(c)
                  /\ IsLowestNearest(castelli_temp_nodes, c.temperature, icat[1].temperature)
                  /\ \E n \in castelli_grav_nodes :
                         /\ IsLowestNearest(castelli_grav_nodes, c.gravity, n)
                         /\ icat[1].gravity = IF n < 250 THEN 250 ELSE n

C10_Witness ==
    /\ fn = "get_castelli_atmosphere"
    /\ args.temperature = 21000
    /\ args.gravity = 490
    /\ Len(icat) = 1
    /\ icat[1].temperature = 21000
    /\ icat[1].gravity = 500
    /\ Len(ret) = 1

\* the first lines of the "Could not find ... model" diagnostics
CouldNotFindTitles ==
    { "Could not find Kurucz 1993 atmosphere model for",
      "Could not find Castelli and Kurucz 2004 atmosphere model for",
      "Could not find NextGen atmosphere model for",
      "Could not find AMESdusty Allard+ 2000 atmosphere model for",
      "Could not find PHOENIX BT-Settl (Allard+ 2011 atmosphere model for",
      "Could not find CMFGEN rotating atmosphere model (Fierro+15) for",
      "Could not find CMFGEN non-rotating atmosphere model (Fierro+15) for",
      "Could not find PHOENIXv16 (Husser+13) atmosphere model for",
      "Could not find ATLAS-PHOENIX merge atmosphere model for" }

\* a "Could not find ... model" diagnostic was printed
CouldNotFindPrinted == \E i \in DOMAIN out : out[i][1] \in CouldNotFindTitles

\* every value of the flux array is exactly zero
AllZero(flux) == \A i \in DOMAIN flux : flux[i] = 0

\* C11: degenerate-model handling is a soft failure: in every fetcher, when the
\* interpolator hands back a spectrum whose flux is all zero, the "Could not
\* find ... model" diagnostic is printed and that same spectrum is returned
\* with its flux unmodified; when some flux value is non-zero, nothing of the
\* kind is printed and the spectrum is returned unmodified.
C11_DegenerateSoftFailure ==
    given # <<>> =>
        /\ Len(given) = 1
        /\ ret = given
        /\ ret[1].flux = given[1].flux
        /\ AllZero(given[1].flux) <=> CouldNotFindPrinted

C11_Witness ==
    /\ fn = "get_phoenixv16_atmosphere"
    /\ Len(given) = 1
    /\ given[1].flux = <<0, 0>>
    /\ ret = given
    /\ Len(out) = 4
    /\ out[1] = <<"Could not find PHOENIXv16 (Husser+13) atmosphere model for">>

\* C12: metallicity round-trip: in every single-grid fetcher, snapping or not,
\* the metallicity of every interpolator query equals the metallicity passed
\* into the fetcher, also when the fetcher is reached through
\* get_merged_atmosphere.
C12_MetallicityRoundTrip ==
    fn # "idle" =>
        /\ \A i \in DOMAIN icat : icat[i].metallicity = args.metallicity
        /\ \A i \in DOMAIN calls : calls[i].metallicity = args.metallicity
        /\ \A i \in DOMAIN given : given[i].metallicity = args.metallicity

C12_Witness ==
    /\ fn = "get_merged_atmosphere"
    /\ args.metallicity = -15
    /\ args.temperature = 4000
    /\ Len(icat) = 1
    /\ icat[1].catalog = "phoenix_v16_rebin"
    /\ icat[1].metallicity = -15

\* the printed lines that name a model family
FamilyNamingLines ==
    CouldNotFindTitles \cup
        { "No ck04 model below 3000 K",
          "No phoenixV16 model below 2300 K or above 12000 K, or grav < 2.0",
          "No ATLAS-PHOENIX merge model outside 5000 - 5500" }

\* a line of the given format was printed
Printed(format) == \E i \in DOMAIN out : out[i][1] = format

\* the call ended in None, or the interpolator handed back an all-zero spectrum
RejectedOrDegenerate ==
    /\ fn # "idle"
    /\ \/ ret = <<>>
       \/ \E i \in DOMAIN given : AllZero(given[i].flux)

\* C13: every rejection (out of domain, snap too far, the resolver falling
\* through all bands) and every degenerate result prints a diagnostic that
\* names the model family and the three parameters temperature, metallicity
\* and gravity; no request ends in None silently.
C13_DiagnosticNamesFamilyAndParameters ==
    RejectedOrDegenerate =>
        /\ out # <<>>
        /\ \E i \in DOMAIN out : out[i][1] \in FamilyNamingLines
        /\ Printed("  temperature = %d")
        /\ Printed("  metallicity = %.1f")
        /\ Printed("  log gravity = %.1f")

\* the array is non-empty and each value is above the one before it
StrictlyIncreasing(arr) ==
    /\ Len(arr) > 0
    /\ \A i \in DOMAIN arr : i > 1 => arr[i - 1] < arr[i]

\* C14: in every grid that snaps, the temperature node array and the gravity
\* node array the fetcher builds are non-empty and strictly increasing: no
\* value occurs twice, the joins 13000 K (Castelli-Kurucz) and 7000 K
\* (PHOENIX-v16) included.
C14_NodeArraysStrictlyIncreasing ==
    /\ \A c \in Invocations("get_castelli_atmosphere") :
           ~castelli_no_model(c.temperature) =>
               /\ StrictlyIncreasing(castelli_temp_arr)
               /\ StrictlyIncreasing(castelli_grav_arr)
    /\ \A c \in Invocations("get_phoenixv16_atmosphere") :
           ~phoenixv16_no_model(c.temperature, c.gravity) =>
               /\ StrictlyIncreasing(phoenixv16_temp_arr)
               /\ StrictlyIncreasing(phoenixv16_grav_arr)
    /\ \A c \in Invocations("get_atlas_phoenix_atmosphere") :
           ~atlas_phoenix_no_model(c.temperature) =>
               /\ StrictlyIncreasing(atlas_phoenix_temp_arr)
               /\ StrictlyIncreasing(atlas_phoenix_grav_arr)

\* the catalogs of the CMFGEN fetchers
CmfgenCatalogs == { "cmfgenF15_rot", "cmfgenF15_noRot" }

CastelliGridTemps == { 3000 + 250 * k : k \in 0..40 } \cup { 13000 + 1000 * k : k \in 0..37 }
PhoenixV16GridTemps == { 2300 + 100 * k : k \in 0..47 } \cup { 7000 + 200 * k : k \in 0..25 }

\* C16: every interpolator query of a snapping fetcher lies on the family's
\* grid and inside its valid range: 'ck04models' only with a temperature of
\* its node set (3000..50000) and a gravity of 2.5, 3.0 .. 5.0; PHOENIX-v16
\* only with a temperature of its node set (2300..12000) and a gravity of
\* 2.0, 2.5 .. 6.0; 'merged' only at 5250 with a gravity of 0.0, 0.5 .. 5.0;
\* for every input, temperatures far above the grid included.
C16_QueriesOnGrid ==
    \A i \in DOMAIN icat :
        /\ icat[i].catalog = "ck04models" =>
               /\ icat[i].temperature \in CastelliGridTemps
               /\ icat[i].gravity \in { 250 + 50 * k : k \in 0..5 }
        /\ icat[i].catalog \in { "phoenix_v16_rebin", "phoenix_v16" } =>
               /\ icat[i].temperature \in PhoenixV16GridTemps
               /\ icat[i].gravity \in { 200 + 50 * k : k \in 0..8 }
        /\ icat[i].catalog = "merged" =>
               /\ icat[i].temperature = 5250
               /\ icat[i].gravity \in { 50 * k : k \in 0..10 }

C16_Witness ==
    /\ fn = "get_castelli_atmosphere"
    /\ args.temperature = 1000000
    /\ args.gravity = 700
    /\ Len(icat) = 1
    /\ icat[1].catalog = "ck04models"
    /\ icat[1].temperature = 50000
    /\ icat[1].gravity = 500

\* C17: the resolver has a second boundary gap: at temperature exactly 5500
\* neither "5000 < temperature < 5500" nor "temperature > 5500" matches, no
\* fetcher is invoked and None is returned; the temperatures for which the
\* resolver dispatches to no fetcher are exactly 5000 and 5500.
C17_Gap5500 ==
    fn = "get_merged_atmosphere" =>
        /\ calls = <<>> <=> args.temperature \in { 5000, 5500 }
        /\ args.temperature = 5500 => (icat = <<>> /\ ret = <<>>)

C17_Witness ==
    /\ fn = "get_merged_atmosphere"
    /\ args.temperature = 5500
    /\ calls = <<>>
    /\ icat = <<>>
    /\ ret = <<>>

\* C18: the temperature half of the snap-distance test can never fire: every
\* temperature that passes the PHOENIX-v16 range guard (2300..12000) is
\* within 100 K of a node, and every temperature that passes the merge's
\* range guard (5000..5500) is within 250 K of node 5250; so, past the range
\* guard, "BAD TEMP/GRAV MATCH" is printed exactly when the gravity is out of
\* reach: above 6.5 for PHOENIX-v16, below -0.5 or above 5.5 for the merge.
C18_TemperatureHalfNeverFires ==
    /\ \A c \in Invocations("get_phoenixv16_atmosphere") :
           (c.temperature >= 2300 /\ c.temperature <= 12000) =>
               /\ ~TooFar(phoenixv16_temp_nodes, c.temperature, 100)
               /\ c.gravity >= 200 =>
                      (Printed("BAD TEMP/GRAV MATCH") <=> c.gravity > 650)
    /\ \A c \in Invocations("get_atlas_phoenix_atmosphere") :
           (c.temperature >= 5000 /\ c.temperature <= 5500) =>
               /\ ~TooFar(atlas_phoenix_temp_nodes, c.temperature, 250)
               /\ Printed("BAD TEMP/GRAV MATCH") <=> (c.gravity < -50 \/ c.gravity > 550)

C18_Witness ==
    /\ fn = "get_phoenixv16_atmosphere"
    /\ args.temperature = 7100
    /\ args.gravity = 651
    /\ Printed("BAD TEMP/GRAV MATCH")
    /\ ret = <<>>

\* the resolver ends in None for this request
MergedNoResult(t, g) ==
    \/ t \in { 5000, 5500 }
    \/ t < 2300
    \/ (t < 5000 /\ (g < 200 \/ g > 650))
    \/ (t > 5000 /\ t < 5500 /\ (g < -50 \/ g > 550))

====
